---- MODULE Spec2Model ----
(***************************************************************************)
(* OLX x FIPE (streamlit_app.py): collection of ad rows, price band,       *)
(* FIPE estimation, margin filter and ranking.                             *)
(*                                                                         *)
(* Money entered in the sidebar and FIPE values are floats in the source.  *)
(* They are modelled in half units (1 = R$ 0,50), so that a value with a   *)
(* fractional part exists; preco_num is always a whole number (parse_preco *)
(* returns an int), so a price p is worth Reais(p) = 2*p half units.       *)
(* An optional value (None / NaN in the source) is a sequence of length 0  *)
(* or 1.                                                                   *)
(***************************************************************************)
EXTENDS Integers, Sequences, FiniteSets, TLC

VARIABLES
    budget, margem_alvo, tol_preco, tol_margem, only_with_price, \* sidebar
    rows_online,     \* st.session_state['rows_online']
    df,              \* rows inside the price band, with fipe_estimado and margem_calc
    df_sel,          \* the ranked result that is displayed
    estimativas,     \* number of calls of estimate_fipe_from_title in the last run
    aviso,           \* the st.info / st.warning branch taken after collection
    all_rows,        \* rows gathered so far by the running handler (all_rows / imported)
    pagina,          \* page (or file) the handler is at
    total,           \* max_pages, or the number of uploaded files
    title,           \* estimate_fipe_from_title: the title given
    brands, brand, models, candidates, cand_i, year_num, years, year_choice,
                     \* estimate_fipe_from_title: its locals (cand_i: place in candidates)
    ret,             \* estimate_fipe_from_title: what it returned or raised
    consultas,       \* catalog lookups made by the running call, as the caller saw them
    cache_brands, cache_models, cache_years, cache_price,
                     \* the lru_cache of get_brands, get_models, get_years, get_price
    ultimo,          \* the last cached lookup: function, key, answer, service contacted
    texto, parsed,   \* parse_preco: the value given, and what it returned or raised
    valor,           \* _fmt_money: the value given (None, or an amount in half units)
    retries,         \* fetch: its parameter
    providers,       \* _call_scraping_provider: the providers whose key is in st.secrets
    tentativa,       \* fetch: i of the loop
    prov_i,          \* _call_scraping_provider: place in providers
    last_err,        \* fetch: last_err
    pedidos,         \* the requests made by the running fetch, with their outcomes
    fetch_ret,       \* fetch: what it returned or raised
    pc               \* position of the script run

sidebar  == <<budget, margem_alvo, tol_preco, tol_margem, only_with_price>>
rankVars == <<rows_online, df, df_sel, estimativas, aviso>>
colVars  == <<all_rows, pagina, total>>
estVars  == <<title, brands, brand, models, candidates, cand_i, year_num, years,
              year_choice, ret, consultas>>
cacheVars == <<cache_brands, cache_models, cache_years, cache_price, ultimo>>
fipeVars == <<estVars, cacheVars>>
parseVars == <<texto, parsed, valor>>
fetchVars == <<retries, providers, tentativa, prov_i, last_err, pedidos, fetch_ret>>
vars     == <<sidebar, rankVars, colVars, fipeVars, parseVars, fetchVars, pc>>

----------------------------------------------------------------------------
(* Bounds of the model *)
MaxVal  == 3    \* budget and FIPE values range over 0..MaxVal half units
MaxTol  == 1    \* the tolerances and the target margin range over 0..MaxTol half units
MaxRows == 2    \* number of collected rows
MaxUrls == 2    \* distinct ad urls that the pages of a search show
MaxPages == 2   \* pages to scan (slider max_pages), files to import
NumBrands == 2  \* brands of the catalog
NumModels == 2  \* models of a brand
MaxAnos == 3    \* year variants of a model
MaxLen  == 3    \* characters of a text given to parse_preco
MaxMoney == 1100  \* amounts given to _fmt_money range over 0..MaxMoney reais
MaxRetries == 1   \* fetch is called with retries in 0..MaxRetries

----------------------------------------------------------------------------
(* Optional values and small helpers *)
None      == <<>>
Some(v)   == <<v>>
NotNa(o)  == o # None
Abs(x)    == IF x >= 0 THEN x ELSE -x
Max(a, b) == IF a >= b THEN a ELSE b
Reais(p)  == 2 * p
\* int(x) of a float x given in half units: truncation toward zero
IntTrunc(x) == IF x >= 0 THEN x \div 2 ELSE -((-x) \div 2)
Between(x, lo, hi) == lo <= x /\ x <= hi

Precos   == 0..(MaxVal \div 2)
FipeVals == 1..MaxVal
Titulo   == "gol 2014"

----------------------------------------------------------------------------
(* The parts of the state a specification leaves at rest *)

\* A title: its characters, and what the string comparisons of the source
\* make of it: the catalog brand names it contains (`nome.lower() in
\* title_low`), the brands its alias words stand for, in the order of
\* COMMON_BRAND_ALIASES, the brand names its first word resembles, best
\* first, and the similarity (in tenths) of each model name to it.
TituloDe(txt, contem, alias, parecidos, sim) ==
    [txt |-> txt, contem |-> contem, alias |-> alias, parecidos |-> parecidos, sim |-> sim]

TituloVazio == TituloDe(<<>>, {}, <<>>, <<>>, <<>>)

\* What a function returned: None, a value, or an exception that left it
RetNone     == [tipo |-> "none", val |-> 0]
RetValor(v) == [tipo |-> "valor", val |-> v]
RetExcecao  == [tipo |-> "excecao", val |-> 0]
RetPendente == [tipo |-> "pendente", val |-> 0]

SemConsulta ==
    [fn |-> "", key |-> <<>>, hit |-> FALSE, contatou |-> FALSE, ok |-> FALSE, val |-> <<>>]

EstParado ==
    /\ title = TituloVazio
    /\ brands = <<>> /\ brand = None /\ models = <<>> /\ candidates = <<>>
    /\ cand_i = 0 /\ year_num = None /\ years = <<>> /\ year_choice = None
    /\ ret = RetPendente /\ consultas = <<>>

CacheVazio ==
    /\ cache_brands = <<>> /\ cache_models = <<>>
    /\ cache_years = <<>> /\ cache_price = <<>>
    /\ ultimo = SemConsulta

\* A Python value handed to parse_preco
Valor(tipo, v) == [tipo |-> tipo, val |-> v]
PyNone == Valor("none", 0)

\* An exception of requests, with the attempt that met it
Erro(classe, status, i) == [classe |-> classe, status |-> status, i |-> i]
NenhumErro == Erro("", 0, 0)

\* What fetch gave: nothing yet, a body, or the exception it raised
FetchPendente   == [tipo |-> "pendente", html |-> "", err |-> NenhumErro]
FetchHtml(h)    == [tipo |-> "html", html |-> h, err |-> NenhumErro]
FetchExcecao(e) == [tipo |-> "excecao", html |-> "", err |-> e]

FetchParado ==
    /\ retries = 0 /\ providers = <<>> /\ tentativa = 0 /\ prov_i = 0
    /\ last_err = None /\ pedidos = <<>> /\ fetch_ret = FetchPendente

ParseParado == texto = PyNone /\ parsed = RetPendente /\ valor = None

FipeParado == EstParado /\ CacheVazio

\* The sidebar as the script starts it (the defaults, scaled to the model)
SidebarPadrao ==
    /\ budget = MaxVal /\ tol_preco = MaxTol
    /\ margem_alvo = MaxTol /\ tol_margem = MaxTol
    /\ only_with_price = TRUE

ColetaParada ==
    /\ SidebarPadrao
    /\ rows_online = <<>>
    /\ df = <<>> /\ df_sel = <<>> /\ estimativas = 0 /\ aviso = ""
    /\ all_rows = <<>> /\ pagina = 0 /\ total = 0

----------------------------------------------------------------------------
(* Post-collection: lines 585-627 *)

\* Mutant: duplicates are not dropped
DropDuplicatesNada(rows) == rows

\* pd.DataFrame(rows).drop_duplicates(subset=['url']): the first row of each url is kept
RECURSIVE DropFrom(_, _, _)
DropFrom(rows, i, seen) ==
    IF i > Len(rows) THEN <<>>
    ELSE IF rows[i].url \in seen THEN DropFrom(rows, i + 1, seen)
    ELSE <<rows[i]>> \o DropFrom(rows, i + 1, seen \cup {rows[i].url})

DropDuplicates(rows) == DropFrom(rows, 1, {})

\* min_p = max(0, int(budget - tol_preco)); max_p = int(budget + tol_preco)
min_p(b, tp) == Max(0, IntTrunc(b - tp))
max_p(b, tp) == IntTrunc(b + tp)

\* if only_with_price: df = df[notna]; df = df[notna & between(min_p, max_p)]
PriceBand(d, b, tp, only) ==
    LET d1 == IF only THEN SelectSeq(d, LAMBDA r : NotNa(r.preco_num)) ELSE d
    IN  SelectSeq(d1, LAMBDA r : NotNa(r.preco_num)
                                 /\ Between(r.preco_num[1], min_p(b, tp), max_p(b, tp)))

\* What estimate_fipe_from_title can give for a row: None for an empty title
\* (titulo.fillna('')), else None or a non-zero float (`if price: return price`).
FipeOutcomes(r) ==
    IF r.titulo = None THEN {None} ELSE {None} \cup {Some(v) : v \in FipeVals}

FipeSeqs(d) ==
    {fv \in [1..Len(d) -> {None} \cup {Some(v) : v \in FipeVals}] :
        \A i \in 1..Len(d) : fv[i] \in FipeOutcomes(d[i])}

\* margem_calc = fipe_estimado - preco_num when both are defined, else None
MargemCalc(fipe, preco) ==
    IF NotNa(fipe) /\ NotNa(preco) THEN Some(fipe[1] - Reais(preco[1])) ELSE None

\* df['fipe_estimado'] = fipe_vals; df['margem_calc'] = df.apply(...)
ComFipe(d, fv) ==
    [i \in 1..Len(d) |->
        [url |-> d[i].url, titulo |-> d[i].titulo, preco_num |-> d[i].preco_num,
         fipe_estimado |-> fv[i], margem_calc |-> MargemCalc(fv[i], d[i].preco_num)]]

\* Mutant: the margin mask lets an undefined margin through
MaskMargemMantemNaN(r, alvo, tol) ==
    r.margem_calc = None \/ Between(r.margem_calc[1], alvo - tol, alvo + tol)

\* mask_margem = margem_calc.notna() & margem_calc.between(alvo_min, alvo_max)
MaskMargem(r, alvo, tol) ==
    NotNa(r.margem_calc) /\ Between(r.margem_calc[1], alvo - tol, alvo + tol)

\* Mutant: no fallback when the margin filter leaves nothing
SelecionarSemFallback(d, alvo, tol) ==
    SelectSeq(d, LAMBDA r : MaskMargem(r, alvo, tol))

\* df_sel = df[mask_margem]; if df_sel.empty: df_sel = df[df['fipe_estimado'].notna()]
Selecionar(d, alvo, tol) ==
    LET sel == SelectSeq(d, LAMBDA r : MaskMargem(r, alvo, tol))
    IN  IF sel = <<>> THEN SelectSeq(d, LAMBDA r : NotNa(r.fipe_estimado)) ELSE sel

\* delta_margem = (margem_calc - margem_alvo).abs(); NaN when margem_calc is NaN
DeltaMargem(r, alvo) ==
    IF NotNa(r.margem_calc) THEN Some(Abs(r.margem_calc[1] - alvo)) ELSE None

\* delta_preco = (preco_num - budget).abs()
DeltaPreco(r, b) ==
    IF NotNa(r.preco_num) THEN Some(Abs(Reais(r.preco_num[1]) - b)) ELSE None

ComDeltas(d, alvo, b) ==
    [i \in 1..Len(d) |->
        [url |-> d[i].url, titulo |-> d[i].titulo, preco_num |-> d[i].preco_num,
         fipe_estimado |-> d[i].fipe_estimado, margem_calc |-> d[i].margem_calc,
         delta_margem |-> DeltaMargem(d[i], alvo), delta_preco |-> DeltaPreco(d[i], b)]]

\* Order of one sort column, NaN last (na_position='last')
ColLess(x, y) == NotNa(x) /\ (y = None \/ x[1] < y[1])

\* Mutant: the two sort columns swapped
KeyLessPrecoPrimeiro(a, b) ==
    \/ ColLess(a.delta_preco, b.delta_preco)
    \/ /\ a.delta_preco = b.delta_preco
       /\ ColLess(a.delta_margem, b.delta_margem)

\* Lexicographic order on (delta_margem, delta_preco)
KeyLess(a, b) ==
    \/ ColLess(a.delta_margem, b.delta_margem)
    \/ /\ a.delta_margem = b.delta_margem
       /\ ColLess(a.delta_preco, b.delta_preco)

\* sort_values(['delta_margem', 'delta_preco']): a stable sort on the two columns
InsertSorted(s, r) ==
    LET n == Cardinality({i \in 1..Len(s) : ~KeyLess(r, s[i])})
    IN  SubSeq(s, 1, n) \o <<r>> \o SubSeq(s, n + 1, Len(s))

RECURSIVE SortFrom(_, _, _)
SortFrom(d, i, acc) ==
    IF i > Len(d) THEN acc ELSE SortFrom(d, i + 1, InsertSorted(acc, d[i]))

SortValues(d) == SortFrom(d, 1, <<>>)

\* The block `if rows:` of the script, run on the rows of the session
PosColeta(rows) ==
    LET d0 == IF rows = <<>> THEN <<>> ELSE DropDuplicates(rows)
        d2 == PriceBand(d0, budget, tol_preco, only_with_price)
    IN  IF rows = <<>>
        THEN df' = <<>> /\ df_sel' = <<>> /\ estimativas' = 0 /\ aviso' = "sem_linhas"
        ELSE IF d2 = <<>>
        THEN df' = <<>> /\ df_sel' = <<>> /\ estimativas' = 0 /\ aviso' = "faixa_vazia"
        ELSE \E fv \in FipeSeqs(d2) :
                LET d3   == ComFipe(d2, fv)
                    dsel == Selecionar(d3, margem_alvo, tol_margem)
                    fb   == SelectSeq(d3, LAMBDA r : MaskMargem(r, margem_alvo, tol_margem)) = <<>>
                IN  /\ df' = d3
                    /\ estimativas' = Len(d2)
                    /\ df_sel' = IF dsel = <<>> THEN <<>>
                                 ELSE SortValues(ComDeltas(dsel, margem_alvo, budget))
                    /\ aviso' = IF dsel = <<>> THEN "sem_fipe"
                                ELSE IF fb THEN "fora_da_margem" ELSE "ok"

----------------------------------------------------------------------------
(* Ranking specification: the rows of the session are any collected rows   *)
(* with distinct urls; one script run ranks them.                          *)

Linha(u, t, p) == [url |-> u, titulo |-> t, preco_num |-> p]

\* A row as the extractors build it: url only (regex), or title with or without price
Formas == {<<None, None>>} \cup {<<Some(Titulo), p>> : p \in {None} \cup {Some(q) : q \in Precos}}

LinhasDistintas ==
    UNION {{[i \in 1..n |-> Linha(i, f[i][1], f[i][2])] : f \in [1..n -> Formas]} : n \in 0..MaxRows}

\* Sidebar values of a run: either the price parameters or the margin
\* parameters range over their sets, the others sit at the top of theirs.
SidebarInit ==
    /\ only_with_price \in BOOLEAN
    /\ \/ /\ budget \in 0..MaxVal
          /\ tol_preco \in 0..MaxTol
          /\ margem_alvo = MaxTol
          /\ tol_margem = MaxTol
       \/ /\ budget = MaxVal
          /\ tol_preco = MaxTol
          /\ margem_alvo \in 0..MaxTol
          /\ tol_margem \in 0..MaxTol

InitRank ==
    /\ SidebarInit
    /\ rows_online \in LinhasDistintas
    /\ df = <<>> /\ df_sel = <<>> /\ estimativas = 0 /\ aviso = ""
    /\ all_rows = <<>> /\ pagina = 0 /\ total = 0
    /\ FipeParado /\ ParseParado /\ FetchParado
    /\ pc = "pos_coleta"

Ranquear ==
    /\ pc = "pos_coleta"
    /\ PosColeta(rows_online)
    /\ pc' = "fim"
    /\ UNCHANGED <<sidebar, rows_online, colVars, fipeVars, parseVars, fetchVars>>

NextRank == Ranquear

SpecRank == InitRank /\ [][NextRank]_vars

----------------------------------------------------------------------------
(* Claims on the price band, the margin filter and the ranking *)

Urls(d) == {d[i].url : i \in 1..Len(d)}
PosIn(d, u) == CHOOSE k \in 1..Len(d) : d[k].url = u

\* The closed price band of the sidebar help text: [Investir - tol, Investir + tol]
NaFaixa(r) ==
    /\ r.preco_num # None
    /\ Max(0, budget - tol_preco) <= Reais(r.preco_num[1])
    /\ Reais(r.preco_num[1]) <= budget + tol_preco

\* The margin band [Margem - tol, Margem + tol]
NaMargem(r) ==
    /\ r.margem_calc # None
    /\ margem_alvo - tol_margem <= r.margem_calc[1]
    /\ r.margem_calc[1] <= margem_alvo + tol_margem

AlgumNaMargem == \E i \in 1..Len(df) : NaMargem(df[i])

\* C1: the ads that survive the price step are exactly the ads with a defined
\* price p with max(0, budget - tol_preco) <= p <= budget + tol_preco; an ad
\* without price never survives; with no survivor the result is empty and no
\* FIPE estimation is made.
C1_FaixaFechada ==
    pc = "fim" =>
        /\ Urls(df) = {rows_online[i].url : i \in {j \in 1..Len(rows_online) : NaFaixa(rows_online[j])}}
        /\ \A i \in 1..Len(df) : df[i].preco_num # None
        /\ (df = <<>> => df_sel = <<>> /\ estimativas = 0)

\* C2 as stated: when some ad's margin is inside the margin band, every ad of
\* the price band whose margin is undefined is still in the result, and only
\* ads with a defined margin outside the band are removed.
C2_IndefinidaMantida ==
    (pc = "fim" /\ AlgumNaMargem) =>
        \A i \in 1..Len(df) :
            (df[i].margem_calc = None \/ NaMargem(df[i])) => df[i].url \in Urls(df_sel)

\* C2 as amended: when some ad's margin is inside the margin band, the result
\* holds exactly the ads whose margin is defined and inside the band; the ads
\* with an undefined margin are removed with those outside the band.
C2_SoMargemDefinidaNaFaixa ==
    (pc = "fim" /\ AlgumNaMargem) =>
        Urls(df_sel) = {df[i].url : i \in {j \in 1..Len(df) : NaMargem(df[j])}}

C2_Witness ==
    /\ pc = "fim" /\ AlgumNaMargem
    /\ \E i \in 1..Len(df) : df[i].margem_calc = None /\ df[i].url \notin Urls(df_sel)
    /\ df_sel # <<>>

\* C3: when no ad of the price band has its margin inside the margin band, the
\* result is exactly the ads of the price band with a FIPE estimate; the
\* result is empty only when no ad of the price band has a FIPE estimate.
C3_Fallback ==
    pc = "fim" =>
        /\ ~AlgumNaMargem =>
              Urls(df_sel) = {df[i].url : i \in {j \in 1..Len(df) : df[j].fipe_estimado # None}}
        /\ df_sel = <<>> => \A i \in 1..Len(df) : df[i].fipe_estimado = None

C3_Witness ==
    /\ pc = "fim" /\ ~AlgumNaMargem
    /\ Len(df_sel) = 1
    /\ \E i \in 1..Len(df) : df[i].fipe_estimado = None

\* Sort keys of a result row, recomputed from its margin and price
DistMargem(r) == Abs(r.margem_calc[1] - margem_alvo)
DistPreco(r)  == Abs(Reais(r.preco_num[1]) - budget)
ChaveMenorIgual(a, b) ==
    \/ DistMargem(a) < DistMargem(b)
    \/ DistMargem(a) = DistMargem(b) /\ DistPreco(a) <= DistPreco(b)
ChaveIgual(a, b) == DistMargem(a) = DistMargem(b) /\ DistPreco(a) = DistPreco(b)

\* C4: consecutive ads of the result are in ascending lexicographic order of
\* (|margin - target margin|, |price - budget|); ads equal on both keys keep
\* their input order; ranking the result again leaves it as it is.
C4_Ordem ==
    pc = "fim" =>
        /\ \A i \in 1..Len(df_sel) :
              /\ df_sel[i].margem_calc # None /\ df_sel[i].preco_num # None
              /\ df_sel[i].delta_margem = Some(DistMargem(df_sel[i]))
              /\ df_sel[i].delta_preco = Some(DistPreco(df_sel[i]))
        /\ \A i \in 1..(Len(df_sel) - 1) : ChaveMenorIgual(df_sel[i], df_sel[i + 1])
        /\ \A i, j \in 1..Len(df_sel) :
              (i < j /\ ChaveIgual(df_sel[i], df_sel[j]))
                  => PosIn(df, df_sel[i].url) < PosIn(df, df_sel[j].url)
        /\ SortValues(df_sel) = df_sel

C4_Witness ==
    /\ pc = "fim" /\ Len(df_sel) = 2
    /\ PosIn(df, df_sel[1].url) > PosIn(df, df_sel[2].url)
    /\ DistMargem(df_sel[1]) = DistMargem(df_sel[2])
    /\ DistPreco(df_sel[1]) < DistPreco(df_sel[2])

----------------------------------------------------------------------------
(* Collection: the two tabs, lines 377-404 and 512-580 *)

\* extrair_anuncios: DOM rows, then regex rows, then JSON rows, first row of each url.
\* A url is a number from 1 on; 0 stands for an empty url (`not u`).
RECURSIVE Combinar(_, _, _)
Combinar(group, i, seen) ==
    IF i > Len(group) THEN <<>>
    ELSE LET u == group[i].url
         IN  IF u = 0 \/ u \in seen THEN Combinar(group, i + 1, seen)
             ELSE <<group[i]>> \o Combinar(group, i + 1, seen \cup {u})

ExtrairAnuncios(dom_rows, regex_rows, json_rows) ==
    Combinar(dom_rows \o regex_rows \o json_rows, 1, {})

SemRepetir(s) == \A i, j \in 1..Len(s) : i # j => s[i].url # s[j].url
SeqsAte(S, n) == UNION {[1..k -> S] : k \in 0..n}

\* Rows of one page: a url-only row, or a row with title and price
LinhasPagina == {Linha(u, f[1], f[2]) :
                    u \in 1..MaxUrls, f \in {<<None, None>>, <<Some(Titulo), Some(1)>>}}
\* _extract_by_selectors: anchors are distinct by href, two hrefs can join to one url
DomRows   == SeqsAte(LinhasPagina, 2)
\* _extract_by_regex: url-only rows, distinct urls
RegexRows == {s \in SeqsAte({Linha(u, None, None) : u \in 1..MaxUrls}, 1) : SemRepetir(s)}
\* _extract_from_json_scripts: rows distinct by url
JsonRows  == {s \in SeqsAte(LinhasPagina, 1) : SemRepetir(s)}

InitColeta ==
    /\ SidebarPadrao
    /\ rows_online = <<>>
    /\ df = <<>> /\ df_sel = <<>> /\ estimativas = 0 /\ aviso = ""
    /\ all_rows = <<>> /\ pagina = 0 /\ total = 0
    /\ FipeParado /\ ParseParado /\ FetchParado
    /\ pc = "inicio"

\* if st.button('Buscar anuncios (online)'): rows_online = []; all_rows = [].
\* The click starts a new script run: df, df_sel and the messages are its locals.
ClicarBuscar ==
    /\ pc \in {"inicio", "fim", "excecao"}
    /\ \E n \in 1..MaxPages : total' = n
    /\ rows_online' = <<>> /\ all_rows' = <<>> /\ pagina' = 1
    /\ df' = <<>> /\ df_sel' = <<>> /\ estimativas' = 0 /\ aviso' = ""
    /\ pc' = "buscando"
    /\ UNCHANGED <<sidebar, fipeVars, parseVars, fetchVars>>

\* One turn of `for p in range(1, max_pages + 1)`: fetch raises (continue),
\* or extrair_anuncios raises (the run stops), or its rows extend all_rows.
BuscarPagina ==
    /\ pc = "buscando" /\ pagina <= total
    /\ \/ /\ pagina' = pagina + 1
          /\ UNCHANGED <<all_rows, pc>>
       \/ /\ pc' = "excecao"
          /\ UNCHANGED <<all_rows, pagina>>
       \/ \E d \in DomRows, r \in RegexRows, j \in JsonRows :
             /\ Len(all_rows) + Len(ExtrairAnuncios(d, r, j)) <= MaxRows
             /\ all_rows' = all_rows \o ExtrairAnuncios(d, r, j)
             /\ pagina' = pagina + 1
             /\ UNCHANGED pc
    /\ UNCHANGED <<sidebar, rankVars, total, fipeVars, parseVars, fetchVars>>

\* After the loop: rows_online = all_rows unless empty; then the common block
FimBusca ==
    /\ pc = "buscando" /\ pagina > total
    /\ rows_online' = all_rows
    /\ PosColeta(all_rows)
    /\ pc' = "fim"
    /\ UNCHANGED <<sidebar, colVars, fipeVars, parseVars, fetchVars>>

\* if files and st.button('Importar anuncios dos HTMLs'): rows_online = []; imported = []
ClicarImportar ==
    /\ pc \in {"inicio", "fim", "excecao"}
    /\ \E n \in 1..MaxPages : total' = n
    /\ rows_online' = <<>> /\ all_rows' = <<>> /\ pagina' = 1
    /\ df' = <<>> /\ df_sel' = <<>> /\ estimativas' = 0 /\ aviso' = ""
    /\ pc' = "importando"
    /\ UNCHANGED <<sidebar, fipeVars, parseVars, fetchVars>>

\* One turn of `for f in files`: reading or extracting raises (warning, next
\* file), or the rows of the file extend imported.
ImportarArquivo ==
    /\ pc = "importando" /\ pagina <= total
    /\ \/ /\ pagina' = pagina + 1
          /\ UNCHANGED all_rows
       \/ \E d \in DomRows, r \in RegexRows, j \in JsonRows :
             /\ Len(all_rows) + Len(ExtrairAnuncios(d, r, j)) <= MaxRows
             /\ all_rows' = all_rows \o ExtrairAnuncios(d, r, j)
             /\ pagina' = pagina + 1
    /\ UNCHANGED <<sidebar, rankVars, total, pc, fipeVars, parseVars, fetchVars>>

FimImportacao ==
    /\ pc = "importando" /\ pagina > total
    /\ rows_online' = all_rows
    /\ PosColeta(all_rows)
    /\ pc' = "fim"
    /\ UNCHANGED <<sidebar, colVars, fipeVars, parseVars, fetchVars>>

NextColeta ==
    \/ ClicarBuscar \/ BuscarPagina \/ FimBusca
    \/ ClicarImportar \/ ImportarArquivo \/ FimImportacao

SpecColeta == InitColeta /\ [][NextColeta]_vars

\* C5: every ad of the ranked result has a url and no two ads of the result
\* share a url, whatever rows the pages or files gave and however often
\* they repeat an ad.
C5_UrlUnica ==
    /\ \A i \in 1..Len(df_sel) : df_sel[i].url # 0 /\ df_sel[i].url \in 1..MaxUrls
    /\ \A i, j \in 1..Len(df_sel) : i # j => df_sel[i].url # df_sel[j].url

C5_Witness ==
    /\ pc = "fim" /\ total = 2
    /\ \E i, j \in 1..Len(rows_online) : i < j /\ rows_online[i].url = rows_online[j].url
    /\ Len(df_sel) = 1

----------------------------------------------------------------------------
(* The FIPE catalog and its cached lookups: lines 409-432 *)

Marcas  == 1..NumBrands
Modelos == 1..NumModels
Marca(b)  == [codigo |-> b, nome |-> b]
Modelo(m) == [codigo |-> m, nome |-> m]
Variante(c, nome) == [codigo |-> c, nome |-> nome]

\* Labels of year variants, as characters
R2012  == <<"2", "0", "1", "2", " ", "G">>
R2014  == <<"2", "0", "1", "4", " ", "G">>
R2016  == <<"2", "0", "1", "6", " ", "D">>
R32000 == <<"3", "2", "0", "0", "0", " ", "G">>
RSemAno == <<"G", "a", "s">>
Rotulos == {R2012, R2014, R2016, R32000, RSemAno}

\* What the service answers when it answers (r.json()); it can also raise
RespBrands == {<<>>, [b \in Marcas |-> Marca(b)]}
RespModels == {<<>>, [m \in Modelos |-> Modelo(m)]}
RespYears  == {<<>>,
               <<Variante(1, R32000), Variante(2, R2014)>>,
               <<Variante(1, R2016), Variante(2, R2012)>>}
\* r.json().get('Valor'): absent, a JSON number, a text that is no number, or money
PrecoTxt(tipo, v) == [tipo |-> tipo, val |-> v]
RespPrice  == {PrecoTxt("ausente", 0), PrecoTxt("numero", 1), PrecoTxt("invalido", 0)}
                  \cup {PrecoTxt("dinheiro", v) : v \in 0..2}

\* lru_cache(maxsize=...): capacities scaled down to the key space of the
\* model (source: 1000, 1000, 2000, 5000), the discipline kept: a hit makes
\* the entry the most recent, a new entry evicts the least recent when full.
MaxsizeBrands == 1
MaxsizeModels == 1
MaxsizeYears  == 2
MaxsizePrice  == 1

\* A cache is a sequence of entries [k, v], least recently used first
Hit(cache, k)     == \E i \in 1..Len(cache) : cache[i].k = k
ValorEm(cache, k) == cache[CHOOSE i \in 1..Len(cache) : cache[i].k = k].v
Tocar(cache, k) ==
    SelectSeq(cache, LAMBDA e : e.k # k) \o <<[k |-> k, v |-> ValorEm(cache, k)]>>
\* Mutant: an answer is returned but not stored
GuardarNada(cache, k, v, maxsize) == cache

Guardar(cache, k, v, maxsize) ==
    LET c == cache \o <<[k |-> k, v |-> v]>>
    IN  IF Len(c) > maxsize THEN Tail(c) ELSE c

\* One call of an lru_cache'd function: the outcomes it can have.  A hit
\* returns the stored value; a miss runs the body, which contacts the
\* service: an exception stores nothing, an answer is stored and returned.
LruCache(cache, k, respostas, maxsize) ==
    IF Hit(cache, k)
    THEN {[cache |-> Tocar(cache, k), hit |-> TRUE, contatou |-> FALSE, ok |-> TRUE,
           val |-> ValorEm(cache, k)]}
    ELSE {[cache |-> cache, hit |-> FALSE, contatou |-> TRUE, ok |-> FALSE, val |-> <<>>]}
         \cup {[cache |-> Guardar(cache, k, v, maxsize), hit |-> FALSE, contatou |-> TRUE,
                ok |-> TRUE, val |-> v] : v \in respostas}

GetBrands       == LruCache(cache_brands, <<>>, RespBrands, MaxsizeBrands)
GetModels(b)    == LruCache(cache_models, <<b>>, RespModels, MaxsizeModels)
GetYears(b, m)  == LruCache(cache_years, <<b, m>>, RespYears, MaxsizeYears)
GetPrice(b, m, y) ==
    LruCache(cache_price, <<b, m, y>>, {<<p>> : p \in RespPrice}, MaxsizePrice)

Ultimo(fn, key, o) ==
    [fn |-> fn, key |-> key, hit |-> o.hit, contatou |-> o.contatou, ok |-> o.ok, val |-> o.val]

----------------------------------------------------------------------------
(* estimate_fipe_from_title and its helpers: lines 434-495 *)

Digitos    == <<"0", "1", "2", "3", "4", "5", "6", "7", "8", "9">>
IsDigit(c) == \E n \in 1..10 : Digitos[n] = c
DigitVal(c) == (CHOOSE n \in 1..10 : Digitos[n] = c) - 1
MinDe(S)   == CHOOSE x \in S : \A y \in S : x <= y

\* re.search(r'(19|20)\d{2}', s): the leftmost match, as a number
ReSearchYear(s) ==
    LET at == {i \in 1..(Len(s) - 3) :
                  /\ \/ s[i] = "1" /\ s[i + 1] = "9"
                     \/ s[i] = "2" /\ s[i + 1] = "0"
                  /\ IsDigit(s[i + 2]) /\ IsDigit(s[i + 3])}
    IN  IF at = {} THEN None
        ELSE LET i == MinDe(at)
             IN  Some(1000 * DigitVal(s[i]) + 100 * DigitVal(s[i + 1])
                      + 10 * DigitVal(s[i + 2]) + DigitVal(s[i + 3]))

\* try_extract_year(text)
TryExtractYear(txt) == IF txt = <<>> THEN None ELSE ReSearchYear(txt)

\* year_of(code_name), local to the candidate loop
YearOf(nome) == ReSearchYear(nome)

\* parse_money_br(s): None, a float, or the AttributeError of s.replace on a number
ParseMoneyBr(s) ==
    CASE s.tipo = "ausente"  -> RetNone
      [] s.tipo = "numero"   -> IF s.val = 0 THEN RetNone ELSE RetExcecao
      [] s.tipo = "invalido" -> RetNone
      [] s.tipo = "dinheiro" -> RetValor(s.val)

\* Mutant: the alias table is consulted before literal containment
FindBrandInTitleAliasPrimeiro(t, bs) ==
    LET nomes  == {bs[i].nome : i \in 1..Len(bs)}
        DeNome(n) == bs[MinDe({i \in 1..Len(bs) : bs[i].nome = n})]
        lit    == {i \in 1..Len(bs) : bs[i].nome \in t.contem}
        alias  == {k \in 1..Len(t.alias) : t.alias[k] \in nomes}
        guess  == {k \in 1..Len(t.parecidos) : t.parecidos[k] \in nomes}
    IN  IF alias # {} THEN Some(DeNome(t.alias[MinDe(alias)]))
        ELSE IF lit # {} THEN Some(bs[MinDe(lit)])
        ELSE IF guess # {} THEN Some(DeNome(t.parecidos[MinDe(guess)]))
        ELSE None

\* find_brand_in_title: literal containment, then the alias table, then the
\* close match of the first word
FindBrandInTitle(t, bs) ==
    LET nomes  == {bs[i].nome : i \in 1..Len(bs)}
        DeNome(n) == bs[MinDe({i \in 1..Len(bs) : bs[i].nome = n})]
        lit    == {i \in 1..Len(bs) : bs[i].nome \in t.contem}
        alias  == {k \in 1..Len(t.alias) : t.alias[k] \in nomes}
        guess  == {k \in 1..Len(t.parecidos) : t.parecidos[k] \in nomes}
    IN  IF lit # {} THEN Some(bs[MinDe(lit)])
        ELSE IF alias # {} THEN Some(DeNome(t.alias[MinDe(alias)]))
        ELSE IF guess # {} THEN Some(DeNome(t.parecidos[MinDe(guess)]))
        ELSE None

\* difflib.get_close_matches(title, model_names, n=4, cutoff=0.5): the names
\* scoring at least the cutoff, by (score, name) descending, at most n
NMatches == 4
Cutoff   == 5

RECURSIVE NLargest(_, _, _)
NLargest(S, sim, n) ==
    IF S = {} \/ n = 0 THEN <<>>
    ELSE LET x == CHOOSE a \in S : \A c \in S : sim[c] < sim[a] \/ (sim[c] = sim[a] /\ c <= a)
         IN  <<x>> \o NLargest(S \ {x}, sim, n - 1)

\* Mutant: the candidates in ascending order of similarity
RECURSIVE NSmallest(_, _, _)
NSmallest(S, sim, n) ==
    IF S = {} \/ n = 0 THEN <<>>
    ELSE LET x == CHOOSE a \in S : \A c \in S : sim[c] > sim[a] \/ (sim[c] = sim[a] /\ c >= a)
         IN  <<x>> \o NSmallest(S \ {x}, sim, n - 1)

GetCloseMatchesAscendente(t, nomes) ==
    NSmallest({nomes[i] : i \in {j \in 1..Len(nomes) : t.sim[nomes[j]] >= Cutoff}}, t.sim, NMatches)

GetCloseMatches(t, nomes) ==
    NLargest({nomes[i] : i \in {j \in 1..Len(nomes) : t.sim[nomes[j]] >= Cutoff}}, t.sim, NMatches)

\* The loop `for y in years` with best_delta = 10**9: (best_delta, year_choice) after it
RECURSIVE YearLoop(_, _, _, _, _)
YearLoop(ys, i, ynum, best_delta, choice) ==
    IF i > Len(ys) THEN choice
    ELSE LET y == YearOf(ys[i].nome)
         IN  IF y = None THEN YearLoop(ys, i + 1, ynum, best_delta, choice)
             ELSE IF Abs(y[1] - ynum) < best_delta
                  THEN YearLoop(ys, i + 1, ynum, Abs(y[1] - ynum), Some(ys[i].codigo))
                  ELSE YearLoop(ys, i + 1, ynum, best_delta, choice)

\* Lines 477-489: year_choice for a non-empty list of variants
YearChoice(ys, ynum) ==
    IF ynum # None
    THEN LET c == YearLoop(ys, 1, ynum[1], 10^9, None)
         IN  IF c = None THEN ys[1].codigo ELSE c[1]
    ELSE ys[1].codigo

\* Mutant: get_years called outside a try
NoExceptSemTryAnos(site) ==
    CASE site = "get_brands" -> "return_none"
      [] site = "get_models" -> "return_none"
      [] site = "get_years"  -> "propaga"
      [] site = "get_price"  -> "continue"

\* What each `except Exception` of the estimator does (lines 463, 467, 475, 494)
NoExcept(site) ==
    CASE site = "get_brands" -> "return_none"
      [] site = "get_models" -> "return_none"
      [] site = "get_years"  -> "continue"
      [] site = "get_price"  -> "continue"

----------------------------------------------------------------------------
(* SpecFipe: one call of estimate_fipe_from_title, step by step *)

TxtGol     == <<"g", "o", "l">>
TxtGol2015 == <<"g", "o", "l", " ", "2", "0", "1", "5">>
TxtGol2001 == <<"g", "o", "l", " ", "2", "0", "0", "1">>

\* Similarity of a title to a model name, in tenths, around the cutoff
Pontos == (Cutoff - 1)..(Cutoff + 1)

\* How a title names its brand: not at all, literally, by an alias, by a
\* first word that resembles it
FormasDeMarca ==
    {<<{}, <<>>, <<>>>>, <<{}, <<1>>, <<>>>>, <<{}, <<>>, <<1>>>>}
        \cup {<<{b}, <<>>, <<>>>> : b \in Marcas}

Titulos ==
    {TituloVazio} \cup
    {TituloDe(txt, f[1], f[2], f[3], sim) :
        txt \in {TxtGol, TxtGol2015}, f \in FormasDeMarca, sim \in [Modelos -> Pontos]}

Consulta(fn, key, o) == [fn |-> fn, key |-> key, ok |-> o.ok, val |-> o.val]

ModeloDe(ms, nome) == ms[MinDe({i \in 1..Len(ms) : ms[i].nome = nome})]

\* An exception caught (or not) at a try of the estimator
Falha(site) ==
    CASE NoExcept(site) = "return_none" ->
             ret' = RetNone /\ pc' = "retornou" /\ cand_i' = cand_i
      [] NoExcept(site) = "continue" ->
             ret' = ret /\ pc' = "candidato" /\ cand_i' = cand_i + 1
      [] NoExcept(site) = "propaga" ->
             ret' = RetExcecao /\ pc' = "retornou" /\ cand_i' = cand_i

InitFipe ==
    /\ ColetaParada /\ FipeParado /\ ParseParado /\ FetchParado
    /\ pc = "ocioso"

\* Line 460: the call, and the test of the title
Estimar ==
    /\ pc = "ocioso"
    /\ \E t \in Titulos :
         /\ title' = t
         /\ IF t.txt = <<>>
            THEN ret' = RetNone /\ pc' = "retornou"
            ELSE ret' = ret /\ pc' = "get_brands"
    /\ UNCHANGED <<sidebar, rankVars, colVars, cacheVars, parseVars, fetchVars>>
    /\ UNCHANGED <<brands, brand, models, candidates, cand_i, year_num, years,
                   year_choice, consultas>>

\* Lines 462-465
EstGetBrands ==
    /\ pc = "get_brands"
    /\ \E o \in GetBrands :
         /\ cache_brands' = o.cache
         /\ ultimo' = Ultimo("get_brands", <<>>, o)
         /\ consultas' = Append(consultas, Consulta("get_brands", <<>>, o))
         /\ IF ~o.ok
            THEN Falha("get_brands") /\ UNCHANGED <<brands, brand>>
            ELSE /\ brands' = o.val
                 /\ brand' = FindBrandInTitle(title, o.val)
                 /\ cand_i' = cand_i
                 /\ IF FindBrandInTitle(title, o.val) = None
                    THEN ret' = RetNone /\ pc' = "retornou"
                    ELSE ret' = ret /\ pc' = "get_models"
    /\ UNCHANGED <<sidebar, rankVars, colVars, parseVars, fetchVars>>
    /\ UNCHANGED <<cache_models, cache_years, cache_price>>
    /\ UNCHANGED <<title, models, candidates, year_num, years, year_choice>>

\* Lines 466-470
EstGetModels ==
    /\ pc = "get_models"
    /\ \E o \in GetModels(brand[1].codigo) :
         /\ cache_models' = o.cache
         /\ ultimo' = Ultimo("get_models", <<brand[1].codigo>>, o)
         /\ consultas' = Append(consultas, Consulta("get_models", <<brand[1].codigo>>, o))
         /\ IF ~o.ok
            THEN Falha("get_models") /\ UNCHANGED <<models, candidates, year_num>>
            ELSE /\ models' = o.val
                 /\ candidates' = GetCloseMatches(title, [i \in 1..Len(o.val) |-> o.val[i].nome])
                 /\ year_num' = TryExtractYear(title.txt)
                 /\ cand_i' = 1 /\ ret' = ret /\ pc' = "candidato"
    /\ UNCHANGED <<sidebar, rankVars, colVars, parseVars, fetchVars>>
    /\ UNCHANGED <<cache_brands, cache_years, cache_price>>
    /\ UNCHANGED <<title, brands, brand, years, year_choice>>

\* Lines 471-489: the next candidate, its year variants and the choice among them
EstGetYears ==
    /\ pc = "candidato" /\ cand_i <= Len(candidates)
    /\ LET b == brand[1].codigo
           m == ModeloDe(models, candidates[cand_i]).codigo
       IN  \E o \in GetYears(b, m) :
             /\ cache_years' = o.cache
             /\ ultimo' = Ultimo("get_years", <<b, m>>, o)
             /\ consultas' = Append(consultas, Consulta("get_years", <<b, m>>, o))
             /\ IF ~o.ok
                THEN Falha("get_years") /\ UNCHANGED <<years, year_choice>>
                ELSE IF o.val = <<>>
                THEN /\ years' = o.val
                     /\ cand_i' = cand_i + 1 /\ ret' = ret /\ pc' = "candidato"
                     /\ UNCHANGED year_choice
                ELSE /\ years' = o.val
                     /\ year_choice' = Some(YearChoice(o.val, year_num))
                     /\ cand_i' = cand_i /\ ret' = ret /\ pc' = "get_price"
    /\ UNCHANGED <<sidebar, rankVars, colVars, parseVars, fetchVars>>
    /\ UNCHANGED <<cache_brands, cache_models, cache_price>>
    /\ UNCHANGED <<title, brands, brand, models, candidates, year_num>>

\* Lines 490-494
EstGetPrice ==
    /\ pc = "get_price"
    /\ LET b == brand[1].codigo
           m == ModeloDe(models, candidates[cand_i]).codigo
           y == year_choice[1]
       IN  \E o \in GetPrice(b, m, y) :
             /\ cache_price' = o.cache
             /\ ultimo' = Ultimo("get_price", <<b, m, y>>, o)
             /\ consultas' = Append(consultas, Consulta("get_price", <<b, m, y>>, o))
             /\ IF ~o.ok
                THEN Falha("get_price")
                ELSE LET price == ParseMoneyBr(o.val[1])
                     IN  IF price.tipo = "excecao" THEN Falha("get_price")
                         ELSE IF price.tipo = "valor" /\ price.val # 0
                         THEN ret' = price /\ pc' = "retornou" /\ cand_i' = cand_i
                         ELSE ret' = ret /\ pc' = "candidato" /\ cand_i' = cand_i + 1
    /\ UNCHANGED <<sidebar, rankVars, colVars, parseVars, fetchVars>>
    /\ UNCHANGED <<cache_brands, cache_models, cache_years>>
    /\ UNCHANGED <<title, brands, brand, models, candidates, year_num, years, year_choice>>

\* Line 495: the candidates are exhausted
EstSemCandidato ==
    /\ pc = "candidato" /\ cand_i > Len(candidates)
    /\ ret' = RetNone /\ pc' = "retornou"
    /\ UNCHANGED <<sidebar, rankVars, colVars, cacheVars, parseVars, fetchVars>>
    /\ UNCHANGED <<title, brands, brand, models, candidates, cand_i, year_num, years,
                   year_choice, consultas>>

NextFipe ==
    \/ Estimar
    \/ EstGetBrands
    \/ EstGetModels
    \/ EstGetYears
    \/ EstGetPrice
    \/ EstSemCandidato

SpecFipe == InitFipe /\ [][NextFipe]_vars

----------------------------------------------------------------------------
(* Claims about the estimator, checked under SpecFipe *)

ConsultasDe(fn)  == SelectSeq(consultas, LAMBDA c : c.fn = fn)
LookupFalhou(fn) == \E i \in 1..Len(consultas) : consultas[i].fn = fn /\ ~consultas[i].ok
ModelosObtidos   == \E i \in 1..Len(consultas) : consultas[i].fn = "get_models" /\ consultas[i].ok

\* C6: the estimator never raises: whatever the title and whichever lookups
\* raise or answer an empty list, it returns an amount or None; an empty
\* title returns None without any lookup; a brands or models lookup that
\* raises makes it return None.
C6_NuncaLevanta ==
    /\ ret.tipo # "excecao"
    /\ pc = "retornou" =>
         /\ ret.tipo \in {"none", "valor"}
         /\ title.txt = <<>> => ret = RetNone /\ consultas = <<>> /\ ultimo = SemConsulta
         /\ LookupFalhou("get_brands") \/ LookupFalhou("get_models") => ret = RetNone

\* The call returned None after a year-variants lookup and a price lookup raised
C6_Witness ==
    /\ pc = "retornou" /\ ret = RetNone
    /\ LookupFalhou("get_years") /\ LookupFalhou("get_price")

\* The amount a logged price lookup gave, if it is usable (`if price:`)
Usavel(c) ==
    /\ c.ok
    /\ ParseMoneyBr(c.val[1]).tipo = "valor"
    /\ ParseMoneyBr(c.val[1]).val # 0

\* A price lookup for the model of code m gave a usable amount v
Rendeu(m, v) ==
    \E i \in 1..Len(consultas) :
        /\ consultas[i].fn = "get_price" /\ consultas[i].key[2] = m
        /\ Usavel(consultas[i]) /\ ParseMoneyBr(consultas[i].val[1]).val = v

Elegiveis == {models[i].nome : i \in {j \in 1..Len(models) : title.sim[models[j].nome] >= Cutoff}}

\* C7: the candidates are the models at or above the cutoff, in descending
\* similarity; they are queried in that order; the call returns the amount
\* of the first candidate that gives a usable one and queries none after
\* it; it returns None only when every candidate was queried and none gave
\* a usable amount.
C7_Candidatos ==
    (pc = "retornou" /\ ModelosObtidos) =>
        LET anos == ConsultasDe("get_years")
            n    == Len(anos)
            Cod(i) == ModeloDe(models, candidates[i]).codigo
        IN  /\ \A i, j \in 1..Len(candidates) :
                  i < j => /\ title.sim[candidates[i]] >= title.sim[candidates[j]]
                           /\ candidates[i] # candidates[j]
            /\ {candidates[i] : i \in 1..Len(candidates)} \subseteq Elegiveis
            /\ Len(candidates) = IF Cardinality(Elegiveis) < NMatches
                                 THEN Cardinality(Elegiveis) ELSE NMatches
            /\ \A e \in Elegiveis, i \in 1..Len(candidates) :
                  title.sim[e] > title.sim[candidates[i]]
                      => \E j \in 1..Len(candidates) : candidates[j] = e
            /\ n <= Len(candidates)
            /\ \A i \in 1..n : anos[i].key[2] = Cod(i)
            /\ \A i \in 1..Len(consultas) :
                  consultas[i].fn = "get_price" =>
                      /\ i > 1 /\ consultas[i - 1].fn = "get_years"
                      /\ consultas[i - 1].ok /\ consultas[i - 1].val # <<>>
                      /\ consultas[i - 1].key[2] = consultas[i].key[2]
            /\ IF ret.tipo = "valor"
               THEN /\ n >= 1 /\ Rendeu(Cod(n), ret.val)
                    /\ consultas[Len(consultas)].fn = "get_price"
                    /\ \A i \in 1..(n - 1) : ~\E v \in 0..MaxVal : Rendeu(Cod(i), v)
               ELSE /\ ret = RetNone
                    /\ n = Len(candidates)
                    /\ \A i \in 1..n : ~\E v \in 0..MaxVal : Rendeu(Cod(i), v)

\* The more similar candidate gave no usable amount, the less similar one did
C7_Witness ==
    /\ pc = "retornou" /\ ret.tipo = "valor"
    /\ Len(candidates) = 2
    /\ title.sim[candidates[1]] > title.sim[candidates[2]]
    /\ Len(ConsultasDe("get_years")) = 2

----------------------------------------------------------------------------
(* SpecCache: the four cached lookups called directly, any key, any number *)
(* of times, within one script run.  The four caches are separate objects; *)
(* a behaviour exercises one of them, named by pc.                         *)

AnosCodigos == 1..MaxAnos

InitCache ==
    /\ ColetaParada /\ FipeParado /\ ParseParado /\ FetchParado
    /\ pc \in {"get_brands", "get_models", "get_years", "get_price"}

ChamarGetBrands ==
    /\ pc = "get_brands"
    /\ \E o \in GetBrands :
         /\ cache_brands' = o.cache
         /\ ultimo' = Ultimo("get_brands", <<>>, o)
    /\ UNCHANGED <<sidebar, rankVars, colVars, estVars, parseVars, fetchVars, pc>>
    /\ UNCHANGED <<cache_models, cache_years, cache_price>>

ChamarGetModels ==
    /\ pc = "get_models"
    /\ \E b \in Marcas : \E o \in GetModels(b) :
         /\ cache_models' = o.cache
         /\ ultimo' = Ultimo("get_models", <<b>>, o)
    /\ UNCHANGED <<sidebar, rankVars, colVars, estVars, parseVars, fetchVars, pc>>
    /\ UNCHANGED <<cache_brands, cache_years, cache_price>>

ChamarGetYears ==
    /\ pc = "get_years"
    /\ \E b \in Marcas, m \in Modelos : \E o \in GetYears(b, m) :
         /\ cache_years' = o.cache
         /\ ultimo' = Ultimo("get_years", <<b, m>>, o)
    /\ UNCHANGED <<sidebar, rankVars, colVars, estVars, parseVars, fetchVars, pc>>
    /\ UNCHANGED <<cache_brands, cache_models, cache_price>>

ChamarGetPrice ==
    /\ pc = "get_price"
    /\ \E b \in Marcas, m \in Modelos, y \in AnosCodigos : \E o \in GetPrice(b, m, y) :
         /\ cache_price' = o.cache
         /\ ultimo' = Ultimo("get_price", <<b, m, y>>, o)
    /\ UNCHANGED <<sidebar, rankVars, colVars, estVars, parseVars, fetchVars, pc>>
    /\ UNCHANGED <<cache_brands, cache_models, cache_years>>

NextCache ==
    \/ ChamarGetBrands
    \/ ChamarGetModels
    \/ ChamarGetYears
    \/ ChamarGetPrice

SpecCache == InitCache /\ [][NextCache]_vars

\* The cache of the lookup that pc names, before and after a step
CacheDe(fn) ==
    CASE fn = "get_brands" -> cache_brands
      [] fn = "get_models" -> cache_models
      [] fn = "get_years"  -> cache_years
      [] fn = "get_price"  -> cache_price

MaxsizeDe(fn) ==
    CASE fn = "get_brands" -> MaxsizeBrands
      [] fn = "get_models" -> MaxsizeModels
      [] fn = "get_years"  -> MaxsizeYears
      [] fn = "get_price"  -> MaxsizePrice

Entradas(cache) == {cache[i] : i \in 1..Len(cache)}

\* C8 as stated: a value once stored stays stored, with the same value, for
\* the rest of the run, so that every later lookup of its key finds it.
C8_ValorPermanece ==
    [][\A e \in Entradas(CacheDe(pc)) : e \in Entradas(CacheDe(pc)')]_vars

\* C8 amended: a lookup that fails contacts the service and leaves the cache
\* unchanged; a lookup that succeeds on a miss contacts the service and
\* stores its value; a lookup of a key that is in the cache returns the
\* stored value without contacting the service and removes nothing; an
\* entry leaves the cache only when the cache is at its maxsize and another
\* key is stored, and then it is the least recently used one; the single
\* entry of get_brands never leaves.
C8_CacheAteDespejo ==
    [][LET c  == CacheDe(pc)
           c2 == CacheDe(pc)'
           k  == ultimo'.key
       IN  /\ ultimo'.fn = pc
           /\ IF Hit(c, k)
              THEN /\ ultimo'.hit /\ ~ultimo'.contatou /\ ultimo'.ok
                   /\ ultimo'.val = ValorEm(c, k)
                   /\ Entradas(c2) = Entradas(c)
              ELSE /\ ~ultimo'.hit /\ ultimo'.contatou
                   /\ IF ultimo'.ok
                      THEN /\ Hit(c2, k) /\ ValorEm(c2, k) = ultimo'.val
                           /\ IF Len(c) < MaxsizeDe(pc)
                              THEN Entradas(c) \subseteq Entradas(c2)
                              ELSE Entradas(c) \ Entradas(c2) = {c[1]}
                      ELSE c2 = c
           /\ Len(c2) <= MaxsizeDe(pc)
           /\ pc = "get_brands" => Entradas(c) \subseteq Entradas(c2)]_vars

\* A lookup answered from the cache after another key was stored
C8_Witness ==
    /\ pc = "get_years" /\ ultimo.hit /\ ~ultimo.contatou
    /\ Len(cache_years) = 2
    /\ ultimo.val = ValorEm(cache_years, ultimo.key)

----------------------------------------------------------------------------
(* SpecAno: the choice of the year variant (lines 470-489) on a title and  *)
(* a non-empty list of variants                                            *)

TitulosAno ==
    {TituloDe(txt, {}, <<>>, <<>>, <<>>) : txt \in {TxtGol, TxtGol2015, TxtGol2001}}

ListasAnos ==
    UNION {{[i \in 1..n |-> Variante(i, f[i])] : f \in [1..n -> Rotulos]} : n \in 1..MaxAnos}

InitAno ==
    /\ ColetaParada /\ CacheVazio /\ ParseParado /\ FetchParado
    /\ title \in TitulosAno
    /\ years \in ListasAnos
    /\ brands = <<>> /\ brand = None /\ models = <<>> /\ candidates = <<>>
    /\ cand_i = 0 /\ year_num = None /\ year_choice = None
    /\ ret = RetPendente /\ consultas = <<>>
    /\ pc = "escolher_ano"

EscolherAno ==
    /\ pc = "escolher_ano"
    /\ year_num' = TryExtractYear(title.txt)
    /\ year_choice' = Some(YearChoice(years, TryExtractYear(title.txt)))
    /\ pc' = "ano_escolhido"
    /\ UNCHANGED <<sidebar, rankVars, colVars, cacheVars, parseVars, fetchVars>>
    /\ UNCHANGED <<title, brands, brand, models, candidates, cand_i, years, ret, consultas>>

NextAno == EscolherAno

SpecAno == InitAno /\ [][NextAno]_vars

\* The year a variant label states: its leading digits, when they are four
AnoDoRotulo(nome) ==
    LET nd == {i \in 1..Len(nome) : ~IsDigit(nome[i])}
        n  == IF nd = {} THEN Len(nome) ELSE MinDe(nd) - 1
    IN  IF n = 4
        THEN Some(1000 * DigitVal(nome[1]) + 100 * DigitVal(nome[2])
                  + 10 * DigitVal(nome[3]) + DigitVal(nome[4]))
        ELSE None

\* C9: with a year extracted from the title, the chosen variant is the one
\* whose label year is nearest to it, the earliest in catalog order among
\* the nearest; with no year in the title, or no year in any label, the
\* first variant is chosen.
C9_MenorDiferenca ==
    pc = "ano_escolhido" =>
        LET com == {i \in 1..Len(years) : AnoDoRotulo(years[i].nome) # None}
            D(i) == Abs(AnoDoRotulo(years[i].nome)[1] - year_num[1])
        IN  IF year_num # None /\ com # {}
            THEN \E i \in com :
                    /\ year_choice = Some(years[i].codigo)
                    /\ \A j \in com : D(i) < D(j) \/ (D(i) = D(j) /\ i <= j)
            ELSE year_choice = Some(years[1].codigo)

----------------------------------------------------------------------------
(* SpecParse: parse_preco (lines 73-88) on the values its callers can give *)

Alfabeto == {"R", "$", " ", ".", ",", "0", "1", "x"}

Textos == UNION {[1..n -> Alfabeto] : n \in 0..MaxLen}

\* None, int, float (in half units, and the non-finite ones), str, and the
\* other JSON values that _json_pick_price can return
ValoresDePreco ==
    {PyNone, Valor("nan", 0), Valor("inf", 0), Valor("dict", 0), Valor("list", 0)}
        \cup {Valor("int", n) : n \in (-1)..MaxVal}
        \cup {Valor("float", h) : h \in (-MaxVal)..MaxVal}
        \cup {Valor("str", s) : s \in Textos}

\* str.replace('R$', '')
RECURSIVE ReplaceRS(_)
ReplaceRS(s) ==
    IF s = <<>> THEN <<>>
    ELSE IF Len(s) >= 2 /\ s[1] = "R" /\ s[2] = "$" THEN ReplaceRS(SubSeq(s, 3, Len(s)))
    ELSE <<s[1]>> \o ReplaceRS(Tail(s))

Remove(s, c) == SelectSeq(s, LAMBDA x : x # c)

\* int(''.join(nums)) of a non-empty sequence of digits
RECURSIVE ToInt(_)
ToInt(ds) ==
    IF ds = <<>> THEN 0
    ELSE 10 * ToInt(SubSeq(ds, 1, Len(ds) - 1)) + DigitVal(ds[Len(ds)])

ParsePreco(v) ==
    CASE v.tipo = "none"  -> RetNone
      [] v.tipo = "int"   -> RetValor(v.val)
      [] v.tipo = "float" -> RetValor(IntTrunc(v.val))
      [] v.tipo \in {"nan", "inf"} -> RetNone
      [] v.tipo = "str"   ->
            LET t    == Remove(Remove(Remove(ReplaceRS(v.val), " "), "."), ",")
                nums == SelectSeq(t, IsDigit)
            IN  IF nums = <<>> THEN RetNone ELSE RetValor(ToInt(nums))
      [] v.tipo \in {"dict", "list"} -> RetExcecao

InitParse ==
    /\ ColetaParada /\ FipeParado
    /\ texto \in ValoresDePreco
    /\ parsed = RetPendente /\ valor = None
    /\ FetchParado
    /\ pc = "parse_preco"

ChamarParsePreco ==
    /\ pc = "parse_preco"
    /\ parsed' = ParsePreco(texto)
    /\ pc' = "parsed"
    /\ UNCHANGED <<sidebar, rankVars, colVars, fipeVars, texto, valor, fetchVars>>

NextParse == ChamarParsePreco

SpecParse == InitParse /\ [][NextParse]_vars

\* C10: parse_preco never raises: whatever value it is given, it returns an
\* integer or None.
C10_NuncaLevanta ==
    pc = "parsed" => parsed.tipo \in {"none", "valor"}

----------------------------------------------------------------------------
(* SpecMoeda: _fmt_money (lines 102-105) followed by parse_preco *)

\* The decimal digits of a natural number
RECURSIVE ToDigits(_)
ToDigits(n) ==
    IF n < 10 THEN <<Digitos[n + 1]>>
    ELSE ToDigits(n \div 10) \o <<Digitos[(n % 10) + 1]>>

\* The ',' option of format(): a separator before every group of three digits
RECURSIVE Agrupar(_, _)
Agrupar(ds, sep) ==
    IF Len(ds) <= 3 THEN ds
    ELSE Agrupar(SubSeq(ds, 1, Len(ds) - 3), sep) \o <<sep>> \o SubSeq(ds, Len(ds) - 2, Len(ds))

\* str.replace of one character by another
Trocar(s, a, b) == [i \in 1..Len(s) |-> IF s[i] = a THEN b ELSE s[i]]

\* 'R$ {:,.2f}'.format(v) of a non-negative amount of h half units
Format2f(h) ==
    <<"R", "$", " ">> \o Agrupar(ToDigits(h \div 2), ",")
        \o <<".">> \o (IF h % 2 = 1 THEN <<"5", "0">> ELSE <<"0", "0">>)

\* _fmt_money(v)
FmtMoney(x) ==
    IF x = None THEN <<"-">>      \* the dash shown for a missing value
    ELSE Trocar(Trocar(Trocar(Format2f(x[1]), ",", "X"), ".", ","), "X", ".")

InitMoeda ==
    /\ ColetaParada /\ FipeParado
    /\ valor \in {None} \cup {Some(h) : h \in 0..(2 * MaxMoney + 1)}
    /\ texto = PyNone /\ parsed = RetPendente
    /\ FetchParado
    /\ pc = "fmt_money"

FormatarValor ==
    /\ pc = "fmt_money"
    /\ texto' = Valor("str", FmtMoney(valor))
    /\ pc' = "parse_preco"
    /\ UNCHANGED <<sidebar, rankVars, colVars, fipeVars, parsed, valor, fetchVars>>

NextMoeda ==
    \/ FormatarValor
    \/ ChamarParsePreco

SpecMoeda == InitMoeda /\ [][NextMoeda]_vars

\* C11: formatting a whole amount A as 'R$ 1.234,00' and parsing the text
\* gives A back; a text with a decimal fraction parses to the amount
\* rounded half-up to whole units.
C11_IdaEVolta ==
    (pc = "parsed" /\ valor # None) =>
        parsed = RetValor((valor[1] + 1) \div 2)

----------------------------------------------------------------------------
(* SpecMarca: find_brand_in_title (lines 444-457) on a title and a brand list *)

\* Sequences without repetition over a set, of length at most n
SeqsDistintas(S, n) ==
    UNION {{f \in [1..k -> S] : \A i, j \in 1..k : i # j => f[i] # f[j]} : k \in 0..n}

\* The catalog may hold any of the brands, in any order
ListasDeMarcas ==
    {[i \in 1..Len(f) |-> Marca(f[i])] : f \in SeqsDistintas(Marcas, NumBrands)}

\* Titles that can name several brands at once, each in its own way
TitulosMarca ==
    {TituloDe(TxtGol, c, a, g, <<>>) :
        c \in SUBSET Marcas, a \in SeqsDistintas(Marcas, 2), g \in SeqsDistintas(Marcas, 2)}

InitMarca ==
    /\ ColetaParada /\ CacheVazio /\ ParseParado /\ FetchParado
    /\ title \in TitulosMarca
    /\ brands \in ListasDeMarcas
    /\ brand = None /\ models = <<>> /\ candidates = <<>>
    /\ cand_i = 0 /\ year_num = None /\ years = <<>> /\ year_choice = None
    /\ ret = RetPendente /\ consultas = <<>>
    /\ pc = "find_brand"

ResolverMarca ==
    /\ pc = "find_brand"
    /\ brand' = FindBrandInTitle(title, brands)
    /\ pc' = "brand_found"
    /\ UNCHANGED <<sidebar, rankVars, colVars, cacheVars, parseVars, fetchVars>>
    /\ UNCHANGED <<title, brands, models, candidates, cand_i, year_num, years,
                   year_choice, ret, consultas>>

NextMarca == ResolverMarca

SpecMarca == InitMarca /\ [][NextMarca]_vars

NomesNoCatalogo == {brands[i].nome : i \in 1..Len(brands)}
PosMarca(n)     == CHOOSE i \in 1..Len(brands) : brands[i].nome = n
\* The brands of the catalog that each stage finds in the title
PorLiteral == NomesNoCatalogo \cap title.contem
PorAlias   == {title.alias[k] : k \in 1..Len(title.alias)} \cap NomesNoCatalogo
PorPalpite == {title.parecidos[k] : k \in 1..Len(title.parecidos)} \cap NomesNoCatalogo
PosEm(seq, n) == CHOOSE k \in 1..Len(seq) : seq[k] = n

\* C12: a title that contains a catalog brand name returns a brand it
\* contains (the first in catalog order); otherwise the alias table decides
\* (the first alias, in table order, whose brand is in the catalog);
\* otherwise the brand that the first word resembles most; otherwise, and
\* for an empty brand list, no brand.
C12_Precedencia ==
    pc = "brand_found" =>
        /\ brand # None => \E i \in 1..Len(brands) : brand[1] = brands[i]
        /\ PorLiteral # {} =>
              /\ brand # None /\ brand[1].nome \in PorLiteral
              /\ \A n \in PorLiteral : PosMarca(brand[1].nome) <= PosMarca(n)
        /\ (PorLiteral = {} /\ PorAlias # {}) =>
              /\ brand # None /\ brand[1].nome \in PorAlias
              /\ \A n \in PorAlias : PosEm(title.alias, brand[1].nome) <= PosEm(title.alias, n)
        /\ (PorLiteral = {} /\ PorAlias = {} /\ PorPalpite # {}) =>
              /\ brand # None /\ brand[1].nome \in PorPalpite
              /\ \A n \in PorPalpite :
                    PosEm(title.parecidos, brand[1].nome) <= PosEm(title.parecidos, n)
        /\ (PorLiteral = {} /\ PorAlias = {} /\ PorPalpite = {}) => brand = None
        /\ brands = <<>> => brand = None

\* The title contains one catalog brand and holds the alias of another one:
\* the contained brand is returned
C12_Witness ==
    /\ pc = "brand_found" /\ brand # None
    /\ brand[1].nome \in PorLiteral
    /\ \E n \in PorAlias : n # brand[1].nome /\ n \notin PorLiteral
    /\ title.alias # <<>> /\ title.alias[1] # brand[1].nome

----------------------------------------------------------------------------
(* The displayed result as a whole, checked under SpecRank *)

\* What every ad of the result carries besides its place in the price band
LinhaCompleta(r) ==
    /\ r.preco_num # None /\ r.fipe_estimado # None
    /\ r.margem_calc = Some(r.fipe_estimado[1] - Reais(r.preco_num[1]))
    /\ r.delta_margem = Some(DistMargem(r))
    /\ r.delta_preco = Some(DistPreco(r))
    /\ ~NaMargem(r) => ~AlgumNaMargem

\* The band that line 592 computes: the ends truncated to integers
NaFaixaInteira(r) ==
    /\ r.preco_num # None
    /\ Max(0, IntTrunc(budget - tol_preco)) <= r.preco_num[1]
    /\ r.preco_num[1] <= IntTrunc(budget + tol_preco)

\* C13: every ad of the result has a price inside the closed price band
\* [max(0, budget - tol_preco), budget + tol_preco], a FIPE value, the margin
\* FIPE - price and both distances; an ad whose margin is outside the margin
\* band is in the result only when no ad's margin is inside it.
C13_Resultado ==
    pc = "fim" =>
        \A i \in 1..Len(df_sel) : NaFaixa(df_sel[i]) /\ LinhaCompleta(df_sel[i])

\* What holds of the result: the same with the band of line 592
ResultadoNaFaixaInteira ==
    pc = "fim" =>
        \A i \in 1..Len(df_sel) : NaFaixaInteira(df_sel[i]) /\ LinhaCompleta(df_sel[i])

----------------------------------------------------------------------------
(* SpecFetch: one call of fetch (lines 149-168) with _call_scraping_provider *)
(* (lines 125-147)                                                         *)

\* Mutant: one attempt more than retries + 1
RangeRetriesMaisUm(r) == 0..(r + 1)

\* range(retries + 1)
RangeRetries(r) == 0..r

\* The providers in the order of lines 129-132, for each choice of keys
Configuracoes ==
    {<<>>, <<"scraperapi">>, <<"scrapingbee">>, <<"scraperapi", "scrapingbee">>}

\* r.text / res.text: an empty body or a page
Corpos == {"", "html"}

\* A request, as logged: who was asked, in which attempt, and what came back
Pedido(quem, i, ok, html, err) ==
    [quem |-> quem, i |-> i, ok |-> ok, html |-> html, err |-> err]

\* What requests.get + raise_for_status can raise in attempt i
ErrosDiretos(i) ==
    {Erro("HTTPError", 403, i), Erro("HTTPError", 500, i), Erro("Exception", 0, i)}

InitFetch ==
    /\ ColetaParada /\ FipeParado /\ ParseParado /\ FetchParado
    /\ pc = "fetch"

\* The call: retries, the keys found in st.secrets, last_err = None
Fetch ==
    /\ pc = "fetch"
    /\ retries' \in 0..MaxRetries
    /\ providers' \in Configuracoes
    /\ tentativa' = 0 /\ prov_i' = 0 /\ last_err' = None
    /\ pedidos' = <<>> /\ fetch_ret' = FetchPendente
    /\ pc' = "request"
    /\ UNCHANGED <<sidebar, rankVars, colVars, fipeVars, parseVars>>

\* Lines 152-164: the direct request of attempt i
RequisicaoDireta ==
    /\ pc = "request" /\ tentativa \in RangeRetries(retries)
    /\ \/ \E h \in Corpos :
            /\ pedidos' = Append(pedidos, Pedido("direto", tentativa, TRUE, h, NenhumErro))
            /\ fetch_ret' = FetchHtml(h) /\ pc' = "returned"
            /\ UNCHANGED <<prov_i, last_err>>
       \/ \E e \in ErrosDiretos(tentativa) :
            /\ pedidos' = Append(pedidos, Pedido("direto", tentativa, FALSE, "", e))
            /\ IF e.classe = "HTTPError" /\ e.status = 403
               THEN pc' = "providers" /\ prov_i' = 1 /\ UNCHANGED last_err
               ELSE pc' = "sleep" /\ last_err' = Some(e) /\ UNCHANGED prov_i
            /\ UNCHANGED fetch_ret
    /\ UNCHANGED <<sidebar, rankVars, colVars, fipeVars, parseVars>>
    /\ UNCHANGED <<retries, providers, tentativa>>

\* Lines 133-146 and 159-162: the next provider is asked; the first that
\* answers ends the round, and fetch returns its body if it is not empty
ChamarProvider ==
    /\ pc = "providers" /\ prov_i <= Len(providers)
    /\ \/ /\ pedidos' = Append(pedidos, Pedido(providers[prov_i], tentativa, FALSE, "",
                                               Erro("Exception", 0, tentativa)))
          /\ prov_i' = prov_i + 1
          /\ UNCHANGED <<last_err, fetch_ret, pc>>
       \/ \E h \in Corpos :
            /\ pedidos' = Append(pedidos, Pedido(providers[prov_i], tentativa, TRUE, h, NenhumErro))
            /\ IF h # ""
               THEN fetch_ret' = FetchHtml(h) /\ pc' = "returned" /\ UNCHANGED last_err
               ELSE /\ last_err' = Some(Erro("HTTPError", 403, tentativa))
                    /\ pc' = "sleep" /\ UNCHANGED fetch_ret
            /\ UNCHANGED prov_i
    /\ UNCHANGED <<sidebar, rankVars, colVars, fipeVars, parseVars>>
    /\ UNCHANGED <<retries, providers, tentativa>>

\* Line 147: no provider is left, _call_scraping_provider returns None
SemProvider ==
    /\ pc = "providers" /\ prov_i > Len(providers)
    /\ last_err' = Some(Erro("HTTPError", 403, tentativa))
    /\ pc' = "sleep"
    /\ UNCHANGED <<sidebar, rankVars, colVars, fipeVars, parseVars>>
    /\ UNCHANGED <<retries, providers, tentativa, prov_i, pedidos, fetch_ret>>

\* Line 166: time.sleep(backoff * (i + 1)), then the next i
Dormir ==
    /\ pc = "sleep"
    /\ tentativa' = tentativa + 1
    /\ pc' = "request"
    /\ UNCHANGED <<sidebar, rankVars, colVars, fipeVars, parseVars>>
    /\ UNCHANGED <<retries, providers, prov_i, last_err, pedidos, fetch_ret>>

\* Line 167: raise last_err
Levantar ==
    /\ pc = "request" /\ tentativa \notin RangeRetries(retries)
    /\ fetch_ret' = FetchExcecao(last_err[1])
    /\ pc' = "raised"
    /\ UNCHANGED <<sidebar, rankVars, colVars, fipeVars, parseVars>>
    /\ UNCHANGED <<retries, providers, tentativa, prov_i, last_err, pedidos>>

NextFetch ==
    \/ Fetch
    \/ RequisicaoDireta
    \/ ChamarProvider
    \/ SemProvider
    \/ Dormir
    \/ Levantar

SpecFetch == InitFetch /\ [][NextFetch]_vars

\* Every request has a timeout (25 s, 35 s) and every sleep is finite: a
\* step that can be taken is taken
SpecFetchJusto == SpecFetch /\ WF_vars(NextFetch)

----------------------------------------------------------------------------
(* Claims about fetch, checked under SpecFetchJusto *)

Diretos == SelectSeq(pedidos, LAMBDA q : q.quem = "direto")
\* The requests to providers within attempt i, in the order made
AProviders(i) == SelectSeq(pedidos, LAMBDA q : q.quem # "direto" /\ q.i = i)
Terminou == pc \in {"returned", "raised"}

\* At most retries + 1 direct requests, in order; the first that succeeds
\* is returned and ends the call; providers are asked only after a 403 of
\* the same attempt, in their order, each after the earlier ones failed; an
\* exception leaves fetch only after retries + 1 failed attempts, and it is
\* the error of the last one.
FetchLimitado ==
    /\ Len(Diretos) <= retries + 1
    /\ \A k \in 1..Len(Diretos) : Diretos[k].i = k - 1
    /\ \A k \in 1..Len(pedidos) :
          (pedidos[k].quem = "direto" /\ pedidos[k].ok) =>
              /\ k = Len(pedidos) /\ pc = "returned"
              /\ fetch_ret = FetchHtml(pedidos[k].html)
    /\ \A k \in 1..Len(Diretos) :
          LET ps == AProviders(Diretos[k].i)
          IN  /\ ps # <<>> => Diretos[k].err = Erro("HTTPError", 403, Diretos[k].i)
              /\ Len(ps) <= Len(providers)
              /\ \A j \in 1..Len(ps) :
                    /\ ps[j].quem = providers[j]
                    /\ j < Len(ps) => ~ps[j].ok
    /\ pc = "returned" =>
          /\ pedidos # <<>> /\ pedidos[Len(pedidos)].ok
          /\ fetch_ret = FetchHtml(pedidos[Len(pedidos)].html)
    /\ fetch_ret.tipo = "excecao" <=> pc = "raised"
    /\ pc = "raised" =>
          /\ Len(Diretos) = retries + 1
          /\ \A k \in 1..Len(pedidos) : ~pedidos[k].ok \/ pedidos[k].html = ""
          /\ \A k \in 1..Len(Diretos) : ~Diretos[k].ok
          /\ fetch_ret.err = Diretos[retries + 1].err

\* Every body that a provider gave is what fetch returned
CorpoDeProviderRetornado ==
    \A k \in 1..Len(pedidos) :
        (pedidos[k].quem # "direto" /\ pedidos[k].ok) =>
            /\ k = Len(pedidos) /\ pc = "returned"
            /\ fetch_ret = FetchHtml(pedidos[k].html)

\* A body that a provider gave is returned if it is not empty; an empty one
\* ends the provider round: the attempt has failed and the next request, if
\* there is one, is the direct request of the next attempt
CorpoNaoVazioRetornado ==
    \A k \in 1..Len(pedidos) :
        (pedidos[k].quem # "direto" /\ pedidos[k].ok) =>
            IF pedidos[k].html # ""
            THEN /\ k = Len(pedidos) /\ pc = "returned"
                 /\ fetch_ret = FetchHtml(pedidos[k].html)
            ELSE /\ k = Len(pedidos) => pc \in {"sleep", "request", "raised"}
                 /\ k < Len(pedidos) =>
                       /\ pedidos[k + 1].quem = "direto"
                       /\ pedidos[k + 1].i = pedidos[k].i + 1

====
